---- MODULE Spec2Model ----
(***************************************************************************)
(* Support Toolkit log analyzer (src/src/main.py).                         *)
(*                                                                         *)
(* One run of main(): analyze_log scans the lines of the source file,      *)
(* folds them into counters, builds the report; print_summary,             *)
(* save_report and save_html_report then render it.                        *)
(*                                                                         *)
(* Text is modelled as sequences of one-character strings, so that         *)
(* str.strip and the LOG_RE regular expression are computed character by   *)
(* character.  A Counter / dict is a function whose DOMAIN is the set of   *)
(* keys present; error_paths, whose insertion order most_common observes,  *)
(* is the sequence of its (key, count) items in insertion order.           *)
(* The wall-clock field generated_at of the report is left out.            *)
(***************************************************************************)
EXTENDS Integers, Sequences, FiniteSets, TLC

\* ------------------------------------------------------------------ bounds
MaxLines == 4
MaxTop == 2

\* --------------------------------------------------------------- characters
Digits == {"0", "1", "2", "3", "4", "5", "6", "7", "8", "9"}
Spaces == {" ", "\t", "\n", "\r"}
Letters ==
  {"a", "b", "c", "d", "e", "f", "g", "h", "i", "j", "k", "l", "m",
   "n", "o", "p", "q", "r", "s", "t", "u", "v", "w", "x", "y", "z",
   "A", "B", "C", "D", "E", "F", "G", "H", "I", "J", "K", "L", "M",
   "N", "O", "P", "Q", "R", "S", "T", "U", "V", "W", "X", "Y", "Z"}
WordChars == Letters \cup Digits \cup {"_"}

\* s[i], or the empty string past either end of s
At(s, i) == IF i \in 1..Len(s) THEN s[i] ELSE ""

IsDigit(c) == c \in Digits
IsSpace(c) == c \in Spaces
IsWord(c) == c \in WordChars

\* ------------------------------------------------------------- input lines
TS == <<"2", "0", "2", "6", "-", "0", "2", "-", "1", "8", " ",
        "0", "7", ":", "0", "1", ":", "0", "5">>
SP == <<" ">>
NL == <<"\n">>
LIT_INFO == <<"I", "N", "F", "O">>
LIT_WARNING == <<"W", "A", "R", "N", "I", "N", "G">>
LIT_ERROR == <<"E", "R", "R", "O", "R">>
LIT_PATH == <<"p", "a", "t", "h", "=">>
PathA == <<"/", "a">>
PathB == <<"/", "b">>

\* The lines a source file is made of, each as iterating the file yields it
\* (with its line terminator).
Lines ==
  << SP \o NL,
     TS \o SP \o LIT_ERROR \o SP \o LIT_PATH \o PathA \o NL,
     \* ... ERROR xpath=/a path=/b s
     TS \o SP \o LIT_ERROR \o SP \o <<"x">> \o LIT_PATH \o PathA \o SP
        \o LIT_PATH \o PathB \o SP \o <<"s">> \o NL,
     TS \o SP \o LIT_INFO \o SP \o LIT_PATH \o PathA \o NL,
     TS \o SP \o LIT_WARNING \o SP \o SP \o LIT_PATH \o PathB \o NL,
     TS \o SP \o LIT_INFO \o SP \o <<"o", "k">> \o NL,
     TS \o SP \o LIT_ERROR \o SP \o LIT_PATH \o NL,
     <<"b", "a", "d">> \o NL >>

LineIds == 1..Len(Lines)

LEVELS == <<"INFO", "WARNING", "ERROR">>

\* ---------------------------------------------------------------- str.strip
RECURSIVE SkipSpace(_, _)
\* least index j >= i with s[j] not whitespace (Len(s)+1 when there is none)
SkipSpace(s, i) ==
  IF i <= Len(s) /\ IsSpace(s[i]) THEN SkipSpace(s, i + 1) ELSE i

RECURSIVE SkipSpaceBack(_, _)
\* greatest index j <= i with s[j] not whitespace (0 when there is none)
SkipSpaceBack(s, i) ==
  IF i >= 1 /\ IsSpace(s[i]) THEN SkipSpaceBack(s, i - 1) ELSE i

strip_identity(s) == s

strip(s) == SubSeq(s, SkipSpace(s, 1), SkipSpaceBack(s, Len(s)))

\* ------------------------------------------------------------------- LOG_RE
AllDigits(s, i, j) == \A k \in i..j : IsDigit(At(s, k))

LitAt(s, i, lit) ==
  /\ i >= 1
  /\ i + Len(lit) - 1 <= Len(s)
  /\ SubSeq(s, i, i + Len(lit) - 1) = lit

\* ^\d{4}-\d{2}-\d{2}\s+\d{2}:\d{2}:\d{2} : the index after the match, 0 if none
MatchTs(s) ==
  IF /\ AllDigits(s, 1, 4) /\ At(s, 5) = "-"
     /\ AllDigits(s, 6, 7) /\ At(s, 8) = "-"
     /\ AllDigits(s, 9, 10) /\ IsSpace(At(s, 11))
  THEN LET t == SkipSpace(s, 11) IN
       IF /\ AllDigits(s, t, t + 1) /\ At(s, t + 2) = ":"
          /\ AllDigits(s, t + 3, t + 4) /\ At(s, t + 5) = ":"
          /\ AllDigits(s, t + 6, t + 7)
       THEN t + 8 ELSE 0
  ELSE 0

\* (INFO|WARNING|ERROR) at index i: the level matched, "" if none
MatchLevel(s, i) ==
  IF LitAt(s, i, LIT_INFO) THEN "INFO"
  ELSE IF LitAt(s, i, LIT_WARNING) THEN "WARNING"
  ELSE IF LitAt(s, i, LIT_ERROR) THEN "ERROR"
  ELSE ""

LevelLen(level) ==
  IF level = "INFO" THEN Len(LIT_INFO)
  ELSE IF level = "WARNING" THEN Len(LIT_WARNING)
  ELSE Len(LIT_ERROR)

\* \b before the p of path= at index j
WordBoundary(s, j) == ~IsWord(At(s, j - 1))

RECURSIVE FindPath(_, _)
\* .*?\bpath= from index i: the least j >= i where \bpath= matches, 0 if none
FindPath(s, i) ==
  IF i > Len(s) THEN 0
  ELSE IF LitAt(s, i, LIT_PATH) /\ WordBoundary(s, i) THEN i
  ELSE FindPath(s, i + 1)

RECURSIVE SkipNonSpace(_, _)
\* least index j >= i with s[j] whitespace (Len(s)+1 when there is none)
SkipNonSpace(s, i) ==
  IF i <= Len(s) /\ ~IsSpace(s[i]) THEN SkipNonSpace(s, i + 1) ELSE i

NoMatch == [matched |-> FALSE, level |-> "", path |-> <<>>]

\* LOG_RE.search(s): the match's groups "level" and "path"; an unmatched
\* optional group (None) is the empty path, which (\S+) never captures.
LOG_RE_search(s) ==
  LET e == MatchTs(s)
      l == SkipSpace(s, e)
      level == MatchLevel(s, l)
      a == l + LevelLen(level)
      j == FindPath(s, SkipSpace(s, a))
  IN IF e = 0 \/ ~IsSpace(At(s, e)) \/ level = "" THEN NoMatch
     ELSE IF ~IsSpace(At(s, a)) \/ j = 0 THEN NoMatch
     ELSE [matched |-> TRUE, level |-> level,
           path |-> SubSeq(s, j + Len(LIT_PATH), SkipNonSpace(s, j + Len(LIT_PATH)) - 1)]

\* ------------------------------------------------------------------ Counter
Range(q) == {q[i] : i \in DOMAIN q}

\* c[k] of a Counter: 0 for a key that is not present
Get(c, k) == IF k \in DOMAIN c THEN c[k] ELSE 0

CounterInc_assign(c, k) ==
  [x \in DOMAIN c \cup {k} |-> IF x = k THEN 1 ELSE c[x]]

\* c[k] += 1 on a Counter
CounterInc(c, k) ==
  [x \in DOMAIN c \cup {k} |-> IF x = k THEN Get(c, k) + 1 ELSE c[x]]

Keys(ep) == {ep[i][1] : i \in DOMAIN ep}

ErrorPathInc_front(ep, path) ==
  IF path \in Keys(ep)
  THEN [i \in DOMAIN ep |-> IF ep[i][1] = path THEN <<path, ep[i][2] + 1>> ELSE ep[i]]
  ELSE <<<<path, 1>>>> \o ep

\* error_paths[path] += 1: a new key goes last in the insertion order, a
\* present key keeps its place
ErrorPathInc(ep, path) ==
  IF path \in Keys(ep)
  THEN [i \in DOMAIN ep |-> IF ep[i][1] = path THEN <<path, ep[i][2] + 1>> ELSE ep[i]]
  ELSE Append(ep, <<path, 1>>)

CountsPath_anyLevel(level, path) == path # <<>>

\* level == "ERROR" and path
CountsPath(level, path) == level = "ERROR" /\ path # <<>>

\* -------------------------------------------------------------- most_common
RECURSIVE InsertDesc(_, _)
\* x placed after every item of the sorted sequence whose count is >= its own
InsertDesc(sorted, x) ==
  IF sorted = <<>> THEN <<x>>
  ELSE IF Head(sorted)[2] >= x[2] THEN <<Head(sorted)>> \o InsertDesc(Tail(sorted), x)
  ELSE <<x>> \o sorted

RECURSIVE SortDesc(_, _)
\* sorted(items, key=count, reverse=True): stable, items taken left to right
SortDesc(items, acc) ==
  IF items = <<>> THEN acc ELSE SortDesc(Tail(items), InsertDesc(acc, Head(items)))

Min(a, b) == IF a <= b THEN a ELSE b

most_common_all(ep, n) == SortDesc(ep, <<>>)

\* Counter.most_common(n) = heapq.nlargest(n, items, key=count): the first n
\* of the stable descending sort, nothing for n <= 0
most_common(ep, n) ==
  IF n <= 0 THEN <<>> ELSE SubSeq(SortDesc(ep, <<>>), 1, Min(n, Len(ep)))

\* ---------------------------------------------------------------- the state
VARIABLES
  pc,            \* where main() is: "start", "scan", "analyzed", "printed",
                 \* "json_saved", "done", "failed"
  file_exists,   \* os.path.isfile(args.file)
  top_n,         \* args.top
  file,          \* the lines read from the source so far (indices into Lines)
  total_lines, parsed_lines, invalid_lines,
  level_counts,  \* Counter: level -> count
  error_paths,   \* Counter: the (path, count) items in insertion order
  report,        \* <<>> before analyze_log returns, then <<the report>>
  stdout,        \* the lines printed
  report_json,   \* output/report.json: absent, stale (of an earlier run),
                 \* partial (a write that failed) or written by this run
  report_html,   \* output/report.html, likewise
  viewer_opened, \* webbrowser.open was called
  error          \* the exception that ended the run, "" if none

vars == <<pc, file_exists, top_n, file, total_lines, parsed_lines, invalid_lines,
          level_counts, error_paths, report, stdout, report_json, report_html,
          viewer_opened, error>>

counters == <<total_lines, parsed_lines, invalid_lines, level_counts, error_paths>>
outputs == <<stdout, report_json, report_html, viewer_opened>>

FILE_PATH == "app.log"
Absent == [status |-> "absent", doc |-> <<>>]
Partial == [status |-> "partial", doc |-> <<>>]
\* a file left in output/ by an earlier run
Stale == [status |-> "stale", doc |-> <<>>]

Init ==
  /\ pc = "start"
  /\ file_exists \in BOOLEAN
  /\ top_n \in 0..MaxTop
  /\ file = <<>>
  /\ total_lines = 0
  /\ parsed_lines = 0
  /\ invalid_lines = 0
  /\ level_counts = [x \in {} |-> 0]
  /\ error_paths = <<>>
  /\ report = <<>>
  /\ stdout = <<>>
  /\ report_json \in {Absent, Stale}
  /\ report_html = report_json
  /\ viewer_opened = FALSE
  /\ error = ""

\* ---------------------------------------------------------------- analyze_log
CheckSource_ignore ==
  /\ pc = "start"
  /\ pc' = "scan"
  /\ UNCHANGED <<file_exists, top_n, file, counters, report, outputs, error>>

\* if not os.path.isfile(file_path): raise FileNotFoundError; main does not
\* catch it.  Otherwise the file is opened for the scan.
CheckSource ==
  /\ pc = "start"
  /\ IF file_exists
     THEN pc' = "scan" /\ error' = error
     ELSE pc' = "failed" /\ error' = "FileNotFoundError"
  /\ UNCHANGED <<file_exists, top_n, file, counters, report, outputs>>

\* One iteration of `for line in f`, on the line Lines[id].
LoopBody(id) ==
  LET line == strip(Lines[id])
      m == LOG_RE_search(line)
  IN /\ file' = Append(file, id)
     /\ total_lines' = total_lines + 1
     /\ IF line = <<>>
        THEN UNCHANGED <<parsed_lines, invalid_lines, level_counts, error_paths>>
        ELSE IF ~m.matched
        THEN /\ invalid_lines' = invalid_lines + 1
             /\ UNCHANGED <<parsed_lines, level_counts, error_paths>>
        ELSE /\ parsed_lines' = parsed_lines + 1
             /\ level_counts' = CounterInc(level_counts, m.level)
             /\ error_paths' = IF CountsPath(m.level, m.path)
                               THEN ErrorPathInc(error_paths, m.path)
                               ELSE error_paths
             /\ UNCHANGED invalid_lines

ReadLine ==
  /\ pc = "scan"
  /\ Len(file) < MaxLines
  /\ \E id \in LineIds : LoopBody(id)
  /\ UNCHANGED <<pc, file_exists, top_n, report, outputs, error>>

BuildReport_allLevels ==
  /\ pc = "scan"
  /\ report' = << [file |-> FILE_PATH,
                   total_lines |-> total_lines,
                   parsed_lines |-> parsed_lines,
                   invalid_lines |-> invalid_lines,
                   level_counts |-> [l \in Range(LEVELS) |-> Get(level_counts, l)],
                   top_error_paths |-> most_common(error_paths, top_n)] >>
  /\ pc' = "analyzed"
  /\ UNCHANGED <<file_exists, top_n, file, counters, outputs, error>>

\* The file is exhausted: the report is built and returned.
BuildReport ==
  /\ pc = "scan"
  /\ report' = << [file |-> FILE_PATH,
                   total_lines |-> total_lines,
                   parsed_lines |-> parsed_lines,
                   invalid_lines |-> invalid_lines,
                   level_counts |-> level_counts,
                   top_error_paths |-> most_common(error_paths, top_n)] >>
  /\ pc' = "analyzed"
  /\ UNCHANGED <<file_exists, top_n, file, counters, outputs, error>>

\* ------------------------------------------------------------------ renderers
\* for lvl in LEVELS: print(lvl, report['level_counts'].get(lvl, 0))
SummaryLevels(r) == [i \in DOMAIN LEVELS |-> <<"level", LEVELS[i], Get(r.level_counts, LEVELS[i])>>]

\* "(none)" when top is empty, else one line per (path, count)
SummaryTop(top) ==
  IF top = <<>> THEN << <<"(none)">> >>
  ELSE [i \in DOMAIN top |-> <<"path", top[i][1], top[i][2]>>]

SummaryText(r) ==
  << <<"=== Support Toolkit Report ===">>,
     <<"File", r.file>>,
     <<"Total lines", r.total_lines>>,
     <<"Parsed lines", r.parsed_lines>>,
     <<"Invalid lines", r.invalid_lines>>,
     <<"Level counts:">> >>
  \o SummaryLevels(r)
  \o << <<"Top ERROR paths:">> >>
  \o SummaryTop(r.top_error_paths)

print_summary ==
  /\ pc = "analyzed"
  /\ stdout' = stdout \o SummaryText(report[1])
  /\ pc' = "printed"
  /\ UNCHANGED <<file_exists, top_n, file, counters, report, report_json,
                 report_html, viewer_opened, error>>

save_report_swallow ==
  /\ pc = "printed"
  /\ \/ /\ report_json' = [status |-> "written", doc |-> report]
        /\ stdout' = Append(stdout, <<"Saved JSON report to", "output/report.json">>)
     \/ /\ report_json' \in {report_json, Partial}
        /\ stdout' = stdout
  /\ pc' = "json_saved"
  /\ UNCHANGED <<file_exists, top_n, file, counters, report, report_html,
                 viewer_opened, error>>

\* save_report(report), then main's print; a failure of makedirs, open or
\* json.dump raises, leaving report.json untouched or partly written.
save_report ==
  /\ pc = "printed"
  /\ \/ /\ report_json' = [status |-> "written", doc |-> report]
        /\ stdout' = Append(stdout, <<"Saved JSON report to", "output/report.json">>)
        /\ pc' = "json_saved"
        /\ error' = error
     \/ /\ report_json' \in {report_json, Partial}
        /\ stdout' = stdout
        /\ pc' = "failed"
        /\ error' = "OSError: report.json"
  /\ UNCHANGED <<file_exists, top_n, file, counters, report, report_html,
                 viewer_opened>>

\* for path, cnt in report["top_error_paths"]: one table row each
HtmlRows(top) == [i \in DOMAIN top |-> <<"tr", top[i][1], top[i][2]>>]

HtmlContent(r) ==
  << <<"h1", "Support Toolkit Report">>,
     <<"File", r.file>>,
     <<"Total lines", r.total_lines>>,
     <<"Parsed lines", r.parsed_lines>>,
     <<"li", "INFO", Get(r.level_counts, "INFO")>>,
     <<"li", "WARNING", Get(r.level_counts, "WARNING")>>,
     <<"li class=error", "ERROR", Get(r.level_counts, "ERROR")>>,
     <<"h2", "Top ERROR Paths">>,
     <<"th", "Path", "Count">> >>
  \o HtmlRows(r.top_error_paths)
  \o << <<"/table">> >>

\* save_html_report(report), then main's print; the viewer is opened after
\* the file is written and closed.
save_html_report ==
  /\ pc = "json_saved"
  /\ \/ /\ report_html' = [status |-> "written", doc |-> HtmlContent(report[1])]
        /\ viewer_opened' = TRUE
        /\ stdout' = Append(stdout, <<"Saved HTML report to", "output/report.html">>)
        /\ pc' = "done"
        /\ error' = error
     \/ /\ report_html' \in {report_html, Partial}
        /\ viewer_opened' = viewer_opened
        /\ stdout' = stdout
        /\ pc' = "failed"
        /\ error' = "OSError: report.html"
  /\ UNCHANGED <<file_exists, top_n, file, counters, report, report_json>>

Next ==
  \/ CheckSource
  \/ ReadLine
  \/ BuildReport
  \/ print_summary
  \/ save_report
  \/ save_html_report

Spec == Init /\ [][Next]_vars

\* ------------------------------------------------- the file, read back
\* What the lines read so far say, taken from the file itself rather than
\* from the counters.
RECURSIVE SumFn(_, _)
SumFn(c, S) ==
  IF S = {} THEN 0
  ELSE LET k == CHOOSE x \in S : TRUE IN c[k] + SumFn(c, S \ {k})

RECURSIVE SumCounts(_)
SumCounts(ep) == IF ep = <<>> THEN 0 ELSE Head(ep)[2] + SumCounts(Tail(ep))

\* the count error_paths holds for p, 0 for a path it does not hold
CountIn(ep, p) ==
  IF p \in Keys(ep) THEN (CHOOSE it \in Range(ep) : it[1] = p)[2] ELSE 0

\* empty after trimming: every character is whitespace
IsBlankLine(raw) == \A k \in DOMAIN raw : IsSpace(raw[k])

BlankLinesSkipped == Cardinality({i \in DOMAIN file : IsBlankLine(Lines[file[i]])})

Classification == [id \in LineIds |-> LOG_RE_search(strip(Lines[id]))]

\* the record of the i-th line read
Rec(i) == Classification[file[i]]

LevelOccurrences(l) ==
  Cardinality({i \in DOMAIN file : Rec(i).matched /\ Rec(i).level = l})

\* the path of line id if the line is an ERROR record, else <<>>
ErrPathOf(id) ==
  IF Classification[id].matched /\ Classification[id].level = "ERROR"
  THEN Classification[id].path ELSE <<>>

\* the same of the i-th line read
ErrPathAt(i) == ErrPathOf(file[i])

SeenPaths == {ErrPathAt(i) : i \in DOMAIN file} \ {<<>>}
ErrIdx(p) == {i \in DOMAIN file : ErrPathAt(i) = p}
FinalCount(p) == Cardinality(ErrIdx(p))
FirstSeen(p) == CHOOSE i \in ErrIdx(p) : \A j \in ErrIdx(p) : i <= j
\* the line at which p's count became c
ReachTime(p, c) ==
  CHOOSE i \in ErrIdx(p) : Cardinality({j \in ErrIdx(p) : j <= i}) = c

Built == report # <<>>
Top == report[1].top_error_paths
TopPaths == {Top[i][1] : i \in DOMAIN Top}
Pos(p) == CHOOSE i \in DOMAIN Top : Top[i][1] = p

\* the summary of the report is what was printed first
SummaryPrinted ==
  /\ Built
  /\ Len(stdout) >= Len(SummaryText(report[1]))
  /\ SubSeq(stdout, 1, Len(SummaryText(report[1]))) = SummaryText(report[1])

HasNone(doc) == \E i \in DOMAIN doc : doc[i][1] = "(none)"

\* --------------------------------------------------------------------- C1
\* C1: at every point of the scan, and in the report, total_lines =
\* parsed_lines + invalid_lines + the number of blank lines read so far, and
\* reading a blank line adds 1 to total_lines and leaves parsed_lines and
\* invalid_lines as they were.
C1_TotalIsSum ==
  /\ [](/\ total_lines = parsed_lines + invalid_lines + BlankLinesSkipped
        /\ Built => report[1].total_lines =
                       report[1].parsed_lines + report[1].invalid_lines
                         + BlankLinesSkipped)
  /\ [][(file' # file /\ IsBlankLine(Lines[file'[Len(file')]]))
          => /\ total_lines' = total_lines + 1
             /\ parsed_lines' = parsed_lines
             /\ invalid_lines' = invalid_lines]_vars

C1_Witness ==
  /\ Built
  /\ BlankLinesSkipped = 1
  /\ report[1].parsed_lines = 1
  /\ report[1].invalid_lines = 1
  /\ report[1].total_lines = 3

\* --------------------------------------------------------------------- C2
\* C2: at every point of the scan the values of level_counts sum to
\* parsed_lines, and every key of level_counts is INFO, WARNING or ERROR.
C2_LevelSum ==
  /\ SumFn(level_counts, DOMAIN level_counts) = parsed_lines
  /\ DOMAIN level_counts \subseteq Range(LEVELS)

C2_Witness ==
  /\ parsed_lines = 4
  /\ DOMAIN level_counts = Range(LEVELS)
  /\ level_counts["ERROR"] = 2

HasTsAndLevel(s) ==
  LET e == MatchTs(s)
      l == SkipSpace(s, e)
      level == MatchLevel(s, l)
  IN /\ e # 0 /\ IsSpace(At(s, e)) /\ level # ""
     /\ At(s, l + LevelLen(level)) \in Spaces \cup {""}

NoPathField(s) == \A i \in DOMAIN s : ~LitAt(s, i, LIT_PATH)

\* C4: reading a non-blank line with a valid timestamp and a severity token
\* that is exactly INFO, WARNING or ERROR, and no path= field, adds 1 to
\* parsed_lines and to level_counts[level] and leaves invalid_lines as it was.
C4_NoPathIsValid ==
  [][(file' # file /\ HasTsAndLevel(strip(Lines[file'[Len(file')]]))
                   /\ NoPathField(Lines[file'[Len(file')]]))
      => LET s == strip(Lines[file'[Len(file')]])
             level == MatchLevel(s, SkipSpace(s, MatchTs(s)))
         IN /\ parsed_lines' = parsed_lines + 1
            /\ Get(level_counts', level) = Get(level_counts, level) + 1
            /\ invalid_lines' = invalid_lines]_vars

\* --------------------------------------------------------------------- C5
\* C5: for a requested N >= 1 the report's top_error_paths has at most N
\* entries, they are the N highest-count entries of error_path_counts (each
\* path with its count), sorted by count descending, and paths with equal
\* counts stand in the order in which they were first seen in an ERROR line.
C5_TopN ==
  (Built /\ top_n >= 1) =>
    /\ Len(Top) <= top_n
    /\ Len(Top) = Min(top_n, Cardinality(SeenPaths))
    /\ \A i \in DOMAIN Top :
         /\ Top[i][1] \in SeenPaths
         /\ Top[i][2] = FinalCount(Top[i][1])
    /\ \A i, j \in DOMAIN Top :
         i < j => /\ Top[i][1] # Top[j][1]
                  /\ Top[i][2] >= Top[j][2]
                  /\ Top[i][2] = Top[j][2]
                       => FirstSeen(Top[i][1]) < FirstSeen(Top[j][1])
    /\ \A q \in SeenPaths \ TopPaths : \A i \in DOMAIN Top :
         \/ Top[i][2] > FinalCount(q)
         \/ /\ Top[i][2] = FinalCount(q)
            /\ FirstSeen(Top[i][1]) < FirstSeen(q)

C5_Witness ==
  /\ Built
  /\ top_n = 1
  /\ Cardinality(SeenPaths) = 2
  /\ \A p \in SeenPaths : FinalCount(p) = 2
  /\ Len(Top) = 1

\* --------------------------------------------------------------------- C6
\* C6: when the source file does not exist the run ends with the
\* source-not-found error before any line is read or counted: no report is
\* built, nothing is printed, report.json and report.html stay as they were
\* (absent, or as an earlier run left them) and the viewer is not opened.
C6_MissingSource ==
  /\ [](~file_exists =>
         /\ pc \in {"start", "failed"}
         /\ pc = "failed" => error = "FileNotFoundError"
         /\ file = <<>>
         /\ total_lines = 0 /\ parsed_lines = 0 /\ invalid_lines = 0
         /\ DOMAIN level_counts = {} /\ error_paths = <<>>
         /\ report = <<>>
         /\ stdout = <<>>
         /\ report_json \in {Absent, Stale}
         /\ report_html \in {Absent, Stale}
         /\ ~viewer_opened)
  /\ [][~file_exists => UNCHANGED <<report_json, report_html, report, counters>>]_vars

C6_Witness ==
  /\ ~file_exists /\ pc = "failed" /\ error = "FileNotFoundError"
  /\ report_json = Stale /\ report_html = Stale

\* --------------------------------------------------------------------- C7
\* C7: whenever the report's top_error_paths is empty, the report.html that
\* was written holds a "(none)" entry in its table, as the printed summary
\* holds a "(none)" line.
C7_HtmlNone ==
  (report_html.status = "written" /\ Top = <<>>) =>
    /\ HasNone(stdout)
    /\ HasNone(report_html.doc)

\* --------------------------------------------------------------------- C8
\* C8: main's steps come in the order summary, report.json, report.html,
\* viewer, and a write failure ends the run there: after a failed write of
\* report.json, report.html is never written and the viewer never opened;
\* after a failed write of report.html the complete report.json stays in
\* place and the viewer is never opened.
C8_WriteFailureAborts ==
  /\ report_json.status \in {"partial", "written"} => SummaryPrinted
  /\ report_html.status \in {"partial", "written"}
       => report_json = [status |-> "written", doc |-> report]
  /\ viewer_opened => report_html.status = "written"
  /\ error = "OSError: report.json" =>
       /\ pc = "failed"
       /\ report_json.status # "written"
       /\ report_html \in {Absent, Stale}
       /\ ~viewer_opened
  /\ error = "OSError: report.html" =>
       /\ pc = "failed"
       /\ report_json = [status |-> "written", doc |-> report]
       /\ report_html.status # "written"
       /\ ~viewer_opened
  /\ pc = "failed" => error # "" /\ ~ENABLED Next

C8_Witness ==
  /\ error = "OSError: report.html"
  /\ report_json.status = "written"
  /\ report_html.status = "partial"
  /\ Len(file) = 2

\* --------------------------------------------------------------------- C9
\* C9 as stated: of two paths that end the scan with the same count, the one
\* that was first to reach that count ranks higher in top_error_paths.
C9_FirstToReach ==
  Built =>
    \A p, q \in TopPaths :
      (FinalCount(p) = FinalCount(q)
         /\ ReachTime(p, FinalCount(p)) < ReachTime(q, FinalCount(q)))
        => Pos(p) < Pos(q)

\* C9 amended: of two paths that end the scan with the same count, the one
\* first seen in an ERROR line ranks higher in top_error_paths, whichever
\* reached that count first (for paths in the order /a, /b, /b, /a the path
\* /a ranks above /b); if only one of them fits in the top N it is that one.
C9_FirstSeen ==
  Built =>
    \A p, q \in SeenPaths :
      (FinalCount(p) = FinalCount(q) /\ FirstSeen(p) < FirstSeen(q))
        => /\ q \in TopPaths => p \in TopPaths
           /\ (p \in TopPaths /\ q \in TopPaths) => Pos(p) < Pos(q)

C9_Witness ==
  /\ Built
  /\ \E p, q \in TopPaths :
       /\ FinalCount(p) = FinalCount(q)
       /\ FirstSeen(p) < FirstSeen(q)
       /\ ReachTime(q, FinalCount(q)) < ReachTime(p, FinalCount(p))
       /\ Pos(p) < Pos(q)

\* -------------------------------------------------------------------- C10
\* C10: reading a line changes error_path_counts only if the line is a valid
\* record with level ERROR and a path, and then that path's count grows by 1
\* and no other; any other line, and every step after the scan, leaves it
\* unchanged; so the counts of error_path_counts sum to at most
\* level_counts[ERROR].
C10_ErrorPathFrame ==
  /\ [](SumCounts(error_paths) <= Get(level_counts, "ERROR"))
  /\ [][IF file' # file /\ ErrPathOf(file'[Len(file')]) # <<>>
         THEN LET p == ErrPathOf(file'[Len(file')]) IN
              /\ Keys(error_paths') = Keys(error_paths) \cup {p}
              /\ CountIn(error_paths', p) = CountIn(error_paths, p) + 1
              /\ \A q \in Keys(error_paths) \ {p} :
                   CountIn(error_paths', q) = CountIn(error_paths, q)
         ELSE error_paths' = error_paths]_vars

C10_Witness ==
  /\ Get(level_counts, "ERROR") = 2
  /\ SumCounts(error_paths) = 1
  /\ Get(level_counts, "INFO") = 1
  /\ invalid_lines = 1

====
